---- MODULE Spec2Model ----
(***************************************************************************)
(* Browser-side scripts of the TG_WebApp location tracker:                 *)
(*   - the geolocation reporter (src/unnamed/part_001): startWatch,        *)
(*     stopWatch, the position/error callbacks and send();                 *)
(*   - the live map page (src/unnamed/part_000): loadEmployees, showTrack; *)
(*   - the manager roster page (src/manager.js): fetchEmployees,           *)
(*     applyFilters, renderList, refresh.                                  *)
(* Each page runs in its own document, so each has its own next-state      *)
(* relation and specification over the shared variable tuple.              *)
(***************************************************************************)
EXTENDS Integers, Sequences, FiniteSets, TLC

VARIABLES
    \* ---- geolocation reporter (part_001) ----
    hasGeo,        \* navigator.geolocation is present
    watchId,       \* closure variable watchId (JsNull or Num(id watchPosition returned))
    lastSent,      \* closure variable lastSent (a Date.now() reading, initially 0)
    now,           \* the browser's wall clock, what Date.now() returns
    ticks,         \* how many times the clock has moved (bounds the run)
    registered,    \* watch ids the browser holds registered and not cleared
    nextWatchId,   \* the id the next watchPosition call returns
    inflight,      \* requests of send() calls whose fetch has not settled
    requests,      \* number of fetch calls issued to /api/geo/ping
    sendLog,       \* the Date.now() reading at each send() call, in call order
    alerts,        \* number of messages surfaced to the user by the reporter
    geoEvent,      \* the last handler that ran, with what it saw before it ran
    \* ---- live map page (part_000) ----
    mapLayers,     \* layers currently on the Leaflet map
    polyline,      \* global polyline (NoLayer or the last polyline created)
    markers,       \* global markers: employee id -> NoLayer or a marker
    listed,        \* employee ids rendered in the list (clickable)
    tracking,      \* showTrack calls awaiting their response (sequence of ids)
    nextLayerId,   \* identity of the next layer object created
    trackEvent,    \* the last showTrack continuation that ran
    \* ---- manager roster page (manager.js) ----
    statusFilter,  \* value of #status-filter
    search,        \* value of #search
    pending,       \* refresh() calls awaiting fetchEmployees
    view,          \* content of #employees
    mgrRequests,   \* number of fetch calls issued to /api/online/employees
    mgrDone,       \* number of refresh() calls that have run to their end
    mgrEvent       \* the last refresh() continuation that ran

geoVars == <<hasGeo, watchId, lastSent, now, ticks, registered, nextWatchId,
             inflight, requests, sendLog, alerts, geoEvent>>
mapVars == <<mapLayers, polyline, markers, listed, tracking, nextLayerId, trackEvent>>
mgrVars == <<statusFilter, search, pending, view, mgrRequests, mgrDone, mgrEvent>>
vars == <<geoVars, mapVars, mgrVars>>

\* A handler of one page leaves the documents of the other pages alone.
GeoPage == UNCHANGED <<mapVars, mgrVars>>
MapPage == UNCHANGED <<geoVars, mgrVars>>
MgrPage == UNCHANGED <<geoVars, mapVars>>

\* ------------------------------------------------------------------------
\* Bounds of the model
\* ------------------------------------------------------------------------
MaxTicks == 4        \* clock movements in a run
MaxPings == 2        \* send() calls in a run
MaxWatches == 2      \* watchPosition registrations in a run
StartNow == 20000    \* Date.now() when the page loads

\* ------------------------------------------------------------------------
\* JavaScript values
\* ------------------------------------------------------------------------
Num(n) == [k |-> "num", v |-> n]
Undefined == [k |-> "undef", v |-> 0]
JsNull == [k |-> "null", v |-> 0]

\* typeof x
TypeOf(x) ==
    CASE x.k = "num" -> "number"
      [] x.k = "undef" -> "undefined"
      [] x.k = "null" -> "object"

\* String(x)
String(x) ==
    CASE x.k = "num" -> ToString(x.v)
      [] x.k = "undef" -> "undefined"
      [] x.k = "null" -> "null"

\* ------------------------------------------------------------------------
\* Geolocation reporter
\* ------------------------------------------------------------------------
THROTTLE_MS == 10000

\* Clock movements between two events: forward by 1 ms or 9999 ms, or a
\* wall-clock adjustment backwards (Date.now() is not monotonic).
ClockSteps == {1, 9999, -5000}

\* pos.coords as the sensor reports it; NoCoords is a position without coords,
\* for which the callback substitutes {}.
NoCoords == [latitude |-> Undefined, longitude |-> Undefined, accuracy |-> Undefined]
Positions ==
    { [latitude |-> Num(55), longitude |-> Num(37), accuracy |-> a] :
        a \in {Num(10), Undefined, JsNull} } \cup {NoCoords}

\* Faulty variant: the accuracy is always appended, 0 standing in for a missing one.
FormFieldsAlwaysAcc(lat, lon, acc) ==
    << <<"lat", String(lat)>>, <<"lon", String(lon)>>,
       <<"acc", IF TypeOf(acc) = "number" THEN String(acc) ELSE "0">> >>

\* The FormData send() builds: lat, lon, and acc when typeof acc === "number".
FormFields(lat, lon, acc) ==
    LET base == << <<"lat", String(lat)>>, <<"lon", String(lon)>> >>
    IN  IF TypeOf(acc) = "number" THEN Append(base, <<"acc", String(acc)>>) ELSE base

\* The request send() hands to fetch.
PingRequest(lat, lon, acc) ==
    [method |-> "POST", url |-> "/api/geo/ping", body |-> FormFields(lat, lon, acc)]

\* Faulty variant: the comparison of the throttle test is inverted.
AdmitInverted(t, last) == ~(t - last > THROTTLE_MS)

\* The throttle test of the position callback: it returns when
\* now - lastSent < 10_000, and goes on to send otherwise.
Admit(t, last) == ~(t - last < THROTTLE_MS)

\* Faulty variant: no try/catch, a rejected fetch rejects send().
SendSettleUncaught(outcome) == IF outcome = "rejected" THEN "rejected" ELSE "fulfilled"

\* How the promise of send() settles for a fetch outcome: the try/catch around
\* the await absorbs a rejection, so it is fulfilled either way.
SendSettle(outcome) == "fulfilled"

\* Messages send() surfaces to the user for a fetch outcome: none.
SendSurfaces(outcome) == 0

\* Faulty variant: the guard does not test navigator.geolocation.
CanStartNoGeoTest(geo, wid) == ~(wid # JsNull)

\* Faulty variant: the guard does not test watchId.
CanStartNoIdTest(geo, wid) == ~(~geo)

\* The guard of startWatch: it returns early without geolocation or when a
\* watch is already held.
CanStart(geo, wid) == ~(~geo \/ wid # JsNull)

Without(s, i) == [j \in 1..(Len(s) - 1) |-> IF j < i THEN s[j] ELSE s[j + 1]]

Event(op, coords, sent, outcome, promise) ==
    [op |-> op, at |-> now, prev |-> lastSent, wid |-> watchId, req |-> requests,
     reg |-> registered, coords |-> coords, sent |-> sent, outcome |-> outcome,
     promise |-> promise]

startWatch ==
    /\ GeoPage
    /\ nextWatchId <= MaxWatches
    /\ IF CanStart(hasGeo, watchId)
          THEN /\ watchId' = Num(nextWatchId)
               /\ registered' = registered \cup {nextWatchId}
               /\ nextWatchId' = nextWatchId + 1
          ELSE UNCHANGED <<watchId, registered, nextWatchId>>
    /\ geoEvent' = Event("startWatch", NoCoords, FALSE, "none", "none")
    /\ UNCHANGED <<hasGeo, lastSent, now, ticks, inflight, requests, sendLog, alerts>>

stopWatch ==
    /\ GeoPage
    /\ IF watchId # JsNull
          THEN /\ registered' = registered \ {watchId.v}
               /\ watchId' = JsNull
          ELSE UNCHANGED <<watchId, registered>>
    /\ geoEvent' = Event("stopWatch", NoCoords, FALSE, "none", "none")
    /\ UNCHANGED <<hasGeo, lastSent, now, ticks, nextWatchId, inflight, requests,
                   sendLog, alerts>>

\* The success callback of watchPosition, fired by the browser for a
\* registered watch.
OnPosition(coords) ==
    /\ GeoPage
    /\ registered # {}
    /\ Admit(now, lastSent) => requests < MaxPings
    /\ IF Admit(now, lastSent)
          THEN /\ lastSent' = now
               /\ inflight' = Append(inflight,
                     PingRequest(coords.latitude, coords.longitude, coords.accuracy))
               /\ requests' = requests + 1
               /\ sendLog' = Append(sendLog, now)
               /\ geoEvent' = Event("position", coords, TRUE, "none", "pending")
          ELSE /\ UNCHANGED <<lastSent, inflight, requests, sendLog>>
               /\ geoEvent' = Event("position", coords, FALSE, "none", "none")
    /\ UNCHANGED <<hasGeo, watchId, now, ticks, registered, nextWatchId, alerts>>

\* The error callback of watchPosition (e.g. permission denied): empty body.
OnGeoError ==
    /\ GeoPage
    /\ registered # {}
    /\ geoEvent' = Event("error", NoCoords, FALSE, "none", "none")
    /\ UNCHANGED <<hasGeo, watchId, lastSent, now, ticks, registered, nextWatchId,
                   inflight, requests, sendLog, alerts>>

\* The fetch of one send() settles: it resolves with some HTTP status or
\* rejects; send() then returns through its try or its catch.
FetchOutcomes == {"ok", "http_error", "rejected"}

PingSettles(i, outcome) ==
    /\ GeoPage
    /\ i \in 1..Len(inflight)
    /\ inflight' = Without(inflight, i)
    /\ alerts' = alerts + SendSurfaces(outcome)
    /\ geoEvent' = Event("settle", NoCoords, FALSE, outcome, SendSettle(outcome))
    /\ UNCHANGED <<hasGeo, watchId, lastSent, now, ticks, registered, nextWatchId,
                   requests, sendLog>>

ClockMoves(d) ==
    /\ GeoPage
    /\ ticks < MaxTicks
    /\ now' = now + d
    /\ ticks' = ticks + 1
    /\ UNCHANGED <<hasGeo, watchId, lastSent, registered, nextWatchId, inflight,
                   requests, sendLog, alerts, geoEvent>>

InitGeo ==
    /\ hasGeo \in BOOLEAN
    /\ watchId = JsNull
    /\ lastSent = 0
    /\ now = StartNow
    /\ ticks = 0
    /\ registered = {}
    /\ nextWatchId = 1
    /\ inflight = <<>>
    /\ requests = 0
    /\ sendLog = <<>>
    /\ alerts = 0
    /\ geoEvent = [op |-> "load", at |-> StartNow, prev |-> 0, wid |-> JsNull, req |-> 0,
                   reg |-> {}, coords |-> NoCoords, sent |-> FALSE, outcome |-> "none", promise |-> "none"]

NextGeo ==
    \/ startWatch
    \/ stopWatch
    \/ \E c \in Positions : OnPosition(c)
    \/ OnGeoError
    \/ \E i \in 1..MaxPings, o \in FetchOutcomes : PingSettles(i, o)
    \/ \E d \in ClockSteps : ClockMoves(d)

\* ------------------------------------------------------------------------
\* Live map page
\* ------------------------------------------------------------------------
MaxDraws == 3        \* showTrack calls that may draw in a run

Employees == {"E1", "E2"}

\* Points the track endpoint may return.
P1 == [lat |-> 55, lon |-> 37, ts |-> 100]
P2 == [lat |-> 56, lon |-> 38, ts |-> 105]

\* The data.points arrays the track endpoint may answer with.
TrackResponses == { <<>>, <<P1>>, <<P1, P2>>, <<P2, P1>>, <<P2, P2, P1>> }

\* Leaflet layer objects; id is the object's identity.
NoLayer == [id |-> 0, kind |-> "none", latlngs |-> <<>>, popup |-> ""]
TileLayer == [id |-> 1, kind |-> "tile", latlngs |-> <<>>, popup |-> ""]
Polyline(id, latlngs) == [id |-> id, kind |-> "polyline", latlngs |-> latlngs, popup |-> ""]
Marker(id, at, popup) == [id |-> id, kind |-> "marker", latlngs |-> <<at>>, popup |-> popup]

\* Faulty variant: the pair is built as [p.lon, p.lat].
LatLngsLonLat(points) == [i \in 1..Len(points) |-> <<points[i].lon, points[i].lat>>]

\* data.points.map(p => [p.lat, p.lon])
LatLngs(points) == [i \in 1..Len(points) |-> <<points[i].lat, points[i].lon>>]

\* latlngs[latlngs.length - 1]
Last(latlngs) == latlngs[Len(latlngs)]

\* map.removeLayer(layer) guarded by the truthiness of the reference.
RemoveLayer(layers, layer) == IF layer # NoLayer THEN layers \ {layer} ELSE layers

\* Faulty variant: the previous polyline is not removed.
ClearedMarkerOnly(layers, pl, mk) == RemoveLayer(layers, mk)

\* Faulty variant: the employee's previous marker is not removed.
ClearedPolylineOnly(layers, pl, mk) == RemoveLayer(layers, pl)

\* if(polyline) map.removeLayer(polyline);
\* if(markers[employee_id]) map.removeLayer(markers[employee_id]);
Cleared(layers, pl, mk) == RemoveLayer(RemoveLayer(layers, pl), mk)

\* Whether showTrack goes on to draw: it returns when data.points.length === 0.
Draws(points) == ~(Len(points) = 0)

\* loadEmployees: the roster arrives and the list is rebuilt, one clickable
\* row per entry.
loadEmployees(ids) ==
    /\ MapPage
    /\ listed' = ids
    /\ UNCHANGED <<mapLayers, polyline, markers, tracking, nextLayerId, trackEvent>>

\* A click on a row: showTrack(employee_id) runs up to its first await.
showTrackCall(emp) ==
    /\ MapPage
    /\ emp \in listed
    /\ (nextLayerId - 2) \div 2 + Len(tracking) < MaxDraws
    /\ tracking' = Append(tracking, emp)
    /\ UNCHANGED <<mapLayers, polyline, markers, listed, nextLayerId, trackEvent>>

\* The track response of call i arrives and showTrack runs to its end.
showTrackResume(i, points) ==
    /\ MapPage
    /\ i \in 1..Len(tracking)
    /\ LET emp == tracking[i]
           kept == Cleared(mapLayers, polyline, markers[emp])
           latlngs == LatLngs(points)
           pl == Polyline(nextLayerId, latlngs)
           mk == Marker(nextLayerId + 1, Last(latlngs), emp)
       IN  /\ IF Draws(points)
                 THEN /\ mapLayers' = kept \cup {pl, mk}
                      /\ polyline' = pl
                      /\ markers' = [markers EXCEPT ![emp] = mk]
                      /\ nextLayerId' = nextLayerId + 2
                 ELSE /\ mapLayers' = kept
                      /\ UNCHANGED <<polyline, markers, nextLayerId>>
           /\ trackEvent' = [emp |-> emp, points |-> points, result |-> "returned",
                             overtook |-> i > 1, before |-> mapLayers, prevPolyline |-> polyline,
                             prevMarker |-> markers[emp]]
    /\ tracking' = Without(tracking, i)
    /\ UNCHANGED listed

\* The response of call i has no points array: the two removals run, then
\* data.points.length throws.
showTrackMalformed(i) ==
    /\ MapPage
    /\ i \in 1..Len(tracking)
    /\ LET emp == tracking[i]
       IN  /\ mapLayers' = Cleared(mapLayers, polyline, markers[emp])
           /\ trackEvent' = [emp |-> emp, points |-> <<>>, result |-> "threw",
                             overtook |-> i > 1, before |-> mapLayers, prevPolyline |-> polyline,
                             prevMarker |-> markers[emp]]
    /\ tracking' = Without(tracking, i)
    /\ UNCHANGED <<polyline, markers, listed, nextLayerId>>

\* The fetch of call i rejects or its body is not JSON: showTrack rejects at
\* its await, before touching the map.
showTrackFails(i) ==
    /\ MapPage
    /\ i \in 1..Len(tracking)
    /\ tracking' = Without(tracking, i)
    /\ trackEvent' = [emp |-> tracking[i], points |-> <<>>, result |-> "rejected",
                      overtook |-> i > 1, before |-> mapLayers, prevPolyline |-> polyline,
                      prevMarker |-> markers[tracking[i]]]
    /\ UNCHANGED <<mapLayers, polyline, markers, listed, nextLayerId>>

\* window.onload has run: the map holds its tile layer, nothing is drawn.
InitMap ==
    /\ mapLayers = {TileLayer}
    /\ polyline = NoLayer
    /\ markers = [e \in Employees |-> NoLayer]
    /\ listed = {}
    /\ tracking = <<>>
    /\ nextLayerId = 2
    /\ trackEvent = [emp |-> "", points |-> <<>>, result |-> "none",
                     overtook |-> FALSE, before |-> {TileLayer},
                     prevPolyline |-> NoLayer, prevMarker |-> NoLayer]

NextMap ==
    \/ \E ids \in SUBSET Employees : loadEmployees(ids)
    \/ \E e \in Employees : showTrackCall(e)
    \/ \E i \in 1..MaxDraws, p \in TrackResponses : showTrackResume(i, p)
    \/ \E i \in 1..MaxDraws : showTrackMalformed(i)
    \/ \E i \in 1..MaxDraws : showTrackFails(i)

\* ------------------------------------------------------------------------
\* Manager roster page
\* ------------------------------------------------------------------------
MaxRoster == 2       \* entries in one roster response
MaxRefreshes == 2    \* refresh() calls in a run

\* Strings are sequences of one-character strings.
Lower(c) == CASE c = "A" -> "a" [] c = "B" -> "b" [] OTHER -> c

\* s.toLowerCase()
ToLowerCase(s) == [i \in 1..Len(s) |-> Lower(s[i])]

\* s.trim()
RECURSIVE TrimStart(_)
TrimStart(s) == IF s # <<>> /\ Head(s) = " " THEN TrimStart(Tail(s)) ELSE s
RECURSIVE TrimEnd(_)
TrimEnd(s) == IF s # <<>> /\ s[Len(s)] = " " THEN TrimEnd(SubSeq(s, 1, Len(s) - 1)) ELSE s
Trim(s) == TrimEnd(TrimStart(s))

\* s.includes(q): q occurs in s at some offset.
RECURSIVE IncludesFrom(_, _, _)
IncludesFrom(s, q, k) ==
    IF k + Len(q) > Len(s) THEN FALSE
    ELSE IF SubSeq(s, k + 1, k + Len(q)) = q THEN TRUE
    ELSE IncludesFrom(s, q, k + 1)
Includes(s, q) == IncludesFrom(s, q, 0)

StatusChoices == {"all", "fresh", "stale"}
SearchTexts == { <<>>, <<" ">>, <<"a">>, <<" ", "A", "b">>, <<"b", "b">> }
RosterEntries ==
    { [employee_id |-> <<"A", "b">>, fresh_status |-> "fresh"],
      [employee_id |-> <<"A", "b">>, fresh_status |-> "stale"],
      [employee_id |-> <<"b", "a">>, fresh_status |-> "stale"] }
Rosters == UNION { [1..n -> RosterEntries] : n \in 0..MaxRoster }

\* Faulty variant: employee_id is not lower-cased before the match.
KeepsCaseSensitive(e, status, q) ==
    LET okStatus == (status = "all") \/ (e.fresh_status = status)
        okSearch == (q = <<>>) \/ Includes(e.employee_id, q)
    IN  okStatus /\ okSearch

\* The predicate of the filter callback of applyFilters, for the status and
\* the query q already trimmed and lower-cased.
Keeps(e, status, q) ==
    LET okStatus == (status = "all") \/ (e.fresh_status = status)
        okSearch == (q = <<>>) \/ Includes(ToLowerCase(e.employee_id), q)
    IN  okStatus /\ okSearch

\* items.filter(pred)
RECURSIVE Filter(_, _, _)
Filter(items, status, q) ==
    IF items = <<>> THEN <<>>
    ELSE IF Keeps(Head(items), status, q)
         THEN <<Head(items)>> \o Filter(Tail(items), status, q)
         ELSE Filter(Tail(items), status, q)

\* applyFilters(items) with the two inputs it reads from the document.
applyFilters(items, statusValue, searchValue) ==
    Filter(items, statusValue, ToLowerCase(Trim(searchValue)))

\* The items array as applyFilters leaves it: filter() builds a new array.
ItemsAfterFilters(items) == items

\* renderList(items): the empty-state message, or one card per item.
Card(e) == [className |-> <<"emp", e.fresh_status>>, fio |-> e.employee_id]
renderList(items) ==
    IF Len(items) = 0
       THEN [kind |-> "empty", cards |-> <<>>]
       ELSE [kind |-> "list", cards |-> [i \in 1..Len(items) |-> Card(items[i])]]

ErrorBanner == [kind |-> "error", cards |-> <<>>]

\* fetchEmployees() for each way its request can end: "rejected" (fetch
\* rejects), "http_error" (r.ok is false), "bad_json" (r.json() rejects),
\* "ok" (the body parses to data). It throws, or returns a list.
fetchEmployees(outcome, data) ==
    CASE outcome = "rejected" -> [threw |-> TRUE, value |-> <<>>]
      [] outcome = "http_error" -> [threw |-> FALSE, value |-> <<>>]
      [] outcome = "bad_json" -> [threw |-> TRUE, value |-> <<>>]
      [] outcome = "ok" -> [threw |-> FALSE, value |-> data]

RosterOutcomes == {"rejected", "http_error", "bad_json", "ok"}

\* refresh() up to its await: fetchEmployees issues the request.
refreshCall ==
    /\ mgrRequests < MaxRefreshes
    /\ pending' = pending + 1
    /\ mgrRequests' = mgrRequests + 1

\* The refresh button, or the 15 s interval.
refresh ==
    /\ MgrPage
    /\ refreshCall
    /\ UNCHANGED <<statusFilter, search, view, mgrDone, mgrEvent>>

\* change of #status-filter
statusChange(s) ==
    /\ MgrPage
    /\ statusFilter' = s
    /\ refreshCall
    /\ UNCHANGED <<search, view, mgrDone, mgrEvent>>

\* input on #search
searchInput(q) ==
    /\ MgrPage
    /\ search' = q
    /\ refreshCall
    /\ UNCHANGED <<statusFilter, view, mgrDone, mgrEvent>>

\* The request of one pending refresh() ends and refresh() runs to its end:
\* the try renders the filtered list, the catch renders the error banner.
refreshResume(outcome, data) ==
    /\ MgrPage
    /\ pending > 0
    /\ pending' = pending - 1
    /\ mgrDone' = mgrDone + 1
    /\ LET got == fetchEmployees(outcome, data)
           shown == applyFilters(got.value, statusFilter, search)
       IN  /\ view' = IF got.threw THEN ErrorBanner ELSE renderList(shown)
           /\ mgrEvent' = [op |-> "refresh", outcome |-> outcome, data |-> data,
                           dataAfter |-> IF got.threw THEN data
                                         ELSE ItemsAfterFilters(got.value),
                           status |-> statusFilter, q |-> search,
                           shown |-> IF got.threw THEN <<>> ELSE shown,
                           promise |-> "fulfilled", reqBefore |-> mgrRequests]
    /\ UNCHANGED <<statusFilter, search, mgrRequests>>

\* DOMContentLoaded has run: the handlers are wired and the first refresh()
\* is awaiting its response.
InitMgr ==
    /\ statusFilter \in StatusChoices
    /\ search \in SearchTexts
    /\ pending = 1
    /\ mgrRequests = 1
    /\ mgrDone = 0
    /\ view = [kind |-> "blank", cards |-> <<>>]
    /\ mgrEvent = [op |-> "load", outcome |-> "none", data |-> <<>>, dataAfter |-> <<>>,
                   status |-> statusFilter, q |-> search, shown |-> <<>>,
                   promise |-> "none", reqBefore |-> 0]

NextMgr ==
    \/ refresh
    \/ \E s \in StatusChoices : statusChange(s)
    \/ \E q \in SearchTexts : searchInput(q)
    \/ \E d \in Rosters : refreshResume("ok", d)
    \/ \E o \in RosterOutcomes \ {"ok"} : refreshResume(o, <<>>)

\* ------------------------------------------------------------------------
\* Specifications: one per page, the other two documents idle
\* ------------------------------------------------------------------------
IdleGeo == hasGeo
IdleMgr == statusFilter = "all" /\ search = <<>>

GeoInit == InitGeo /\ InitMap /\ InitMgr /\ IdleMgr
MapInit == InitGeo /\ InitMap /\ InitMgr /\ IdleGeo /\ IdleMgr
MgrInit == InitGeo /\ InitMap /\ InitMgr /\ IdleGeo

SpecGeo == GeoInit /\ [][NextGeo]_vars
SpecMap == MapInit /\ [][NextMap]_vars
SpecMgr == MgrInit /\ [][NextMgr]_vars


\* ------------------------------------------------------------------------
\* Properties of the geolocation reporter (SpecGeo)
\* ------------------------------------------------------------------------
\* The send() calls made before the last handler ran.
PriorSendLog == IF geoEvent.sent THEN SubSeq(sendLog, 1, Len(sendLog) - 1) ELSE sendLog

FieldNames(body) == [i \in 1..Len(body) |-> body[i][1]]

\* C1: any two consecutive send() calls are made at Date.now() readings at
\* least 10000 ms apart, whatever the callbacks and the startWatch/stopWatch
\* calls in between; a position callback that arrives less than 10000 ms after
\* the last admitted one sends nothing and leaves lastSent unchanged.
C1_PingThrottle ==
    /\ \A i \in 1..(Len(sendLog) - 1) : sendLog[i + 1] - sendLog[i] >= 10000
    /\ ( /\ geoEvent.op = "position"
         /\ PriorSendLog # <<>>
         /\ geoEvent.at - PriorSendLog[Len(PriorSendLog)] < 10000 )
       => /\ ~geoEvent.sent
          /\ requests = geoEvent.req
          /\ lastSent = geoEvent.prev

\* Two pings exactly 10000 ms apart, then a callback 9999 ms later that is
\* turned away.
C1_Witness ==
    /\ Len(sendLog) = 2
    /\ sendLog[2] - sendLog[1] = 10000
    /\ geoEvent.op = "position"
    /\ ~geoEvent.sent
    /\ geoEvent.at - sendLog[2] = 9999

\* C5: whatever the outcome of the ping request (resolved with any status, or
\* rejected), the promise of send() is fulfilled, nothing is surfaced to the
\* user, and settling issues no further request: every request stems from a
\* position callback the throttle admitted.
C5_SendSwallowsFailure ==
    /\ geoEvent.op = "settle" =>
          /\ geoEvent.promise = "fulfilled"
          /\ requests = geoEvent.req
    /\ alerts = 0
    /\ requests = Len(sendLog)

\* A ping whose fetch rejected, with send() fulfilled all the same.
C5_Witness ==
    /\ geoEvent.op = "settle"
    /\ geoEvent.outcome = "rejected"
    /\ geoEvent.promise = "fulfilled"
    /\ requests > 0

\* C6: without navigator.geolocation, startWatch leaves watchId null, no
\* watch is registered and no ping is ever sent; the error callback sends
\* nothing, surfaces nothing and leaves watchId and lastSent unchanged.
C6_SilentDegradation ==
    /\ ~hasGeo =>
          /\ watchId = JsNull
          /\ registered = {}
          /\ requests = 0
          /\ sendLog = <<>>
          /\ alerts = 0
    /\ geoEvent.op = "error" =>
          /\ requests = geoEvent.req
          /\ watchId = geoEvent.wid
          /\ lastSent = geoEvent.prev
          /\ alerts = 0

\* startWatch has been called on a page without geolocation, some time after
\* load.
C6_Witness ==
    /\ ~hasGeo
    /\ geoEvent.op = "startWatch"
    /\ geoEvent.at > StartNow

\* C7: every request of send() is a POST to /api/geo/ping whose form fields
\* are lat and lon, then acc exactly when the reported accuracy is a number,
\* with the reported value; there is no timestamp field and no made-up acc.
C7_PingPayload ==
    /\ \A i \in 1..Len(inflight) :
          /\ inflight[i].method = "POST"
          /\ inflight[i].url = "/api/geo/ping"
          /\ FieldNames(inflight[i].body) \in { <<"lat", "lon">>, <<"lat", "lon", "acc">> }
    /\ (geoEvent.op = "position" /\ geoEvent.sent) =>
          LET body == inflight[Len(inflight)].body
              acc == geoEvent.coords.accuracy
          IN  IF TypeOf(acc) = "number"
                 THEN /\ FieldNames(body) = <<"lat", "lon", "acc">>
                      /\ body[3][2] = ToString(acc.v)
                 ELSE FieldNames(body) = <<"lat", "lon">>

\* A ping for a position whose accuracy is null: two fields only.
C7_Witness ==
    /\ geoEvent.op = "position"
    /\ geoEvent.sent
    /\ geoEvent.coords.accuracy = JsNull
    /\ geoEvent.coords.latitude = Num(55)
    /\ Len(inflight[Len(inflight)].body) = 2

\* C10: at most one watch is registered and not cleared, and watchId is
\* non-null exactly when there is one (and names it); startWatch while
\* watching registers nothing; stopWatch while not watching does nothing;
\* startWatch while not watching registers a new watch.
C10_SingleWatch ==
    /\ Cardinality(registered) <= 1
    /\ (watchId # JsNull) <=> (registered # {})
    /\ watchId # JsNull => registered = {watchId.v}
    /\ (geoEvent.op = "startWatch" /\ geoEvent.wid # JsNull) =>
          /\ watchId = geoEvent.wid
          /\ registered = geoEvent.reg
    /\ (geoEvent.op = "stopWatch" /\ geoEvent.wid = JsNull) =>
          /\ watchId = JsNull
          /\ registered = geoEvent.reg
    /\ (geoEvent.op = "startWatch" /\ geoEvent.wid = JsNull /\ hasGeo) =>
          /\ watchId # JsNull
          /\ watchId.v \notin geoEvent.reg
          /\ registered = {watchId.v}

\* startWatch after a stopWatch: the second watch of the page is the one held.
C10_Witness ==
    /\ geoEvent.op = "startWatch"
    /\ geoEvent.wid = JsNull
    /\ watchId = Num(2)
    /\ registered = {2}

\* ------------------------------------------------------------------------
\* Properties of the live map page (SpecMap)
\* ------------------------------------------------------------------------
PolylinesOnMap == {l \in mapLayers : l.kind = "polyline"}
MarkersOnMap(e) == {l \in mapLayers : l.kind = "marker" /\ l.popup = e}

\* C2: a track response with zero points makes showTrack return normally,
\* draw nothing new, and leave neither the previous polyline nor that
\* employee's previous marker on the map.
C2_EmptyTrack ==
    (trackEvent.result = "returned" /\ trackEvent.points = <<>>) =>
       /\ mapLayers \subseteq trackEvent.before
       /\ polyline = trackEvent.prevPolyline
       /\ markers[trackEvent.emp] = trackEvent.prevMarker
       /\ trackEvent.prevPolyline \notin mapLayers
       /\ trackEvent.prevMarker \notin mapLayers

\* An empty response for an employee whose track and marker were on the map.
C2_Witness ==
    /\ trackEvent.result = "returned"
    /\ trackEvent.points = <<>>
    /\ trackEvent.prevPolyline \in trackEvent.before
    /\ trackEvent.prevMarker \in trackEvent.before

\* C3: for a non-empty track response showTrack draws exactly one polyline,
\* whose vertices are the returned points' (lat, lon) pairs in returned order,
\* and puts the employee's marker at the last returned point.
C3_TrackPathOrder ==
    (trackEvent.result = "returned" /\ trackEvent.points # <<>>) =>
       LET pts == trackEvent.points
       IN  /\ polyline \in mapLayers
           /\ {l \in mapLayers \ trackEvent.before : l.kind = "polyline"} = {polyline}
           /\ Len(polyline.latlngs) = Len(pts)
           /\ \A i \in 1..Len(pts) :
                 /\ polyline.latlngs[i][1] = pts[i].lat
                 /\ polyline.latlngs[i][2] = pts[i].lon
           /\ markers[trackEvent.emp] \in mapLayers
           /\ markers[trackEvent.emp].kind = "marker"
           /\ markers[trackEvent.emp].latlngs =
                 << <<pts[Len(pts)].lat, pts[Len(pts)].lon>> >>

\* A response of two different points, drawn.
C3_Witness ==
    /\ trackEvent.result = "returned"
    /\ Len(trackEvent.points) = 2
    /\ trackEvent.points[1] # trackEvent.points[2]
    /\ Len(polyline.latlngs) = 2

\* C9: however showTrack calls overlap and in whatever order their responses
\* arrive, at most one polyline is on the map and at most one marker per
\* employee id.
C9_SingleTrack ==
    /\ Cardinality(PolylinesOnMap) <= 1
    /\ \A e \in Employees : Cardinality(MarkersOnMap(e)) <= 1

\* The response of a later call overtook that of an earlier one, which is
\* still awaited, and was drawn over an earlier track of the same employee.
C9_Witness ==
    /\ trackEvent.result = "returned"
    /\ trackEvent.overtook
    /\ trackEvent.points # <<>>
    /\ tracking # <<>>
    /\ trackEvent.prevMarker \in trackEvent.before
    /\ Cardinality(PolylinesOnMap) = 1

\* ------------------------------------------------------------------------
\* Properties of the manager roster page (SpecMgr)
\* ------------------------------------------------------------------------
\* The entries the spec's filter selects: status equal to the selection (any
\* status for 'all'), and the lower-cased employee_id containing the trimmed,
\* lower-cased search text (any id when that is empty).
Selected(e, status, text) ==
    LET q == ToLowerCase(Trim(text))
        id == ToLowerCase(e.employee_id)
    IN  /\ (status = "all" \/ e.fresh_status = status)
        /\ \/ q = <<>>
           \/ \E k \in 0..(Len(id) - Len(q)) : \A j \in 1..Len(q) : id[k + j] = q[j]

SelectedAt(items, status, text) ==
    {i \in 1..Len(items) : Selected(items[i], status, text)}

\* C4: applyFilters returns exactly the selected entries in their original
\* relative order, leaves the input list as it was, and issues no request.
\* (One request per refresh() call, pending or done: filtering adds none.)
C4_FiltersPure ==
    /\ (mgrEvent.op = "refresh" /\ mgrEvent.outcome = "ok") =>
          LET at == SelectedAt(mgrEvent.data, mgrEvent.status, mgrEvent.q)
              out == mgrEvent.shown
          IN  /\ Len(out) = Cardinality(at)
              /\ \A i \in at :
                    out[1 + Cardinality({k \in at : k < i})] = mgrEvent.data[i]
              /\ mgrEvent.dataAfter = mgrEvent.data
    /\ mgrRequests = pending + mgrDone

\* Two entries, a search text with a blank and a capital, the second entry
\* alone selected.
C4_Witness ==
    /\ mgrEvent.op = "refresh"
    /\ mgrEvent.outcome = "ok"
    /\ Len(mgrEvent.data) = 2
    /\ mgrEvent.q = <<" ", "A", "b">>
    /\ mgrEvent.status = "stale"
    /\ mgrEvent.shown = <<mgrEvent.data[2]>>

\* C8: refresh() never rejects; an empty roster renders the empty-state
\* message; a failed request (rejected fetch, non-OK status, unparsable body)
\* renders the error banner and never the empty-state message.
C8_FailureIsNotEmpty ==
    mgrEvent.op = "refresh" =>
       /\ mgrEvent.promise = "fulfilled"
       /\ (mgrEvent.outcome = "ok" /\ mgrEvent.data = <<>>) => view.kind = "empty"
       /\ mgrEvent.outcome \in {"rejected", "http_error", "bad_json"} => view.kind = "error"

====
